---- MODULE Spec2Model ----
(***************************************************************************)
(* Report query parser of obsidian-clockify-integration.                   *)
(*                                                                         *)
(* The Parser class (token cursor, query object, parse()) and the          *)
(* parseWorkspace grammar rule are translated from the TypeScript source.  *)
(* The tokenizer and the seven other grammar rules are imported by the     *)
(* Parser but their files are not part of the source tree; they are        *)
(* modelled from the written specification of the query language.          *)
(*                                                                         *)
(* The module also holds the Clockify service (API status, polling         *)
(* intervals, current timer) and the ApiManager of the plugin, translated  *)
(* from the TypeScript source.                                             *)
(***************************************************************************)
EXTENDS Integers, Sequences, FiniteSets, TLC

(***************************************************************************)
(* Bounds of the model.                                                    *)
(***************************************************************************)
\* A source text is written as at most MaxClauses clause fragments.
MaxClauses == 3
\* Source texts of the two-parser specification: at most MaxPairClauses.
MaxPairClauses == 2
\* Source texts of the specification of all public calls: at most
\* MaxCallClauses.
MaxCallClauses == 1
\* At most MaxPending calls of the service stand at an await.
MaxPending == 2
\* window.setInterval is called at most MaxHandles times.
MaxHandles == 4
\* At most MaxRequests calls of requestUrl are in flight.
MaxRequests == 2

(***************************************************************************)
(* Values.                                                                 *)
(***************************************************************************)
\* JavaScript undefined / empty string for an optional string argument;
\* both are falsy in the tests `type && ...` and `value && ...`.
NoArg == ""
\* No error has been thrown.
NoError == ""
\* JavaScript null in a string-valued query field.
Null == "null"
\* JavaScript null in the interval field (a {start, end} pair otherwise).
NullInterval == << >>

\* String.prototype.toLowerCase on the strings of the model.
LowerTable ==
    [ s \in {"TYPE", "BETWEEN", "AND", "WORKSPACE", "PROJECTS", "CLIENTS",
             "TAGS", "INCLUDE", "EXCLUDE", "GROUPBY", "SORT", "ASC", "DESC",
             "SHOW", "TITLE", "Work", "LEARNING"} |->
        CASE s = "TYPE" -> "type"
          [] s = "BETWEEN" -> "between"
          [] s = "AND" -> "and"
          [] s = "WORKSPACE" -> "workspace"
          [] s = "PROJECTS" -> "projects"
          [] s = "CLIENTS" -> "clients"
          [] s = "TAGS" -> "tags"
          [] s = "INCLUDE" -> "include"
          [] s = "EXCLUDE" -> "exclude"
          [] s = "GROUPBY" -> "groupby"
          [] s = "SORT" -> "sort"
          [] s = "ASC" -> "asc"
          [] s = "DESC" -> "desc"
          [] s = "SHOW" -> "show"
          [] s = "TITLE" -> "title"
          [] s = "Work" -> "work"
          [] s = "LEARNING" -> "learning" ]

toLowerCase(s) == IF s \in DOMAIN LowerTable THEN LowerTable[s] ELSE s

(***************************************************************************)
(* Tokenizer (modelled from the specification, section 4.1).               *)
(* A source text is a sequence of lexemes (whitespace is discarded).       *)
(***************************************************************************)
\* Reserved keywords, in lower case; matching is case-insensitive.
Keywords ==
    {"type", "between", "and", "workspace", "projects", "clients", "tags",
     "include", "exclude", "groupby", "sort", "asc", "desc", "show", "title"}

\* ISO-date-shaped lexemes of the model, with their order in time.
DateOrd == [ d \in {"2024-01-01", "2024-01-31"} |->
               IF d = "2024-01-01" THEN 1 ELSE 31 ]

\* Quoted lexemes of the model and their text with the quotes stripped.
Unquoted == [ s \in {"\"Mine\""} |-> "Mine" ]

Punctuation == {",", "[", "]"}

\* The token a lexeme becomes: keyword, date, punctuation, string or word.
Token(lexeme) ==
    CASE toLowerCase(lexeme) \in Keywords ->
             [type |-> "KEYWORD", value |-> lexeme]
      [] lexeme \in DOMAIN DateOrd -> [type |-> "DATE", value |-> lexeme]
      [] lexeme \in Punctuation -> [type |-> "PUNCTUATION", value |-> lexeme]
      [] lexeme \in DOMAIN Unquoted ->
             [type |-> "STRING", value |-> Unquoted[lexeme]]
      [] OTHER -> [type |-> "WORD", value |-> lexeme]

tokenize(source) == [ i \in 1..Len(source) |-> Token(source[i]) ]

(***************************************************************************)
(* Source texts of the model: sequences of clause fragments.               *)
(***************************************************************************)
Fragments ==
    { <<"TYPE", "list">>,
      <<"TYPE", "foo">>,
      <<"BETWEEN", "2024-01-01", "AND", "2024-01-31">>,
      <<"BETWEEN", "2024-01-31", "AND", "2024-01-01">>,
      <<"WORKSPACE", "learning">>,
      <<"WORKSPACE", "Work">>,
      <<"workspace", "LEARNING">>,
      <<"WORKSPACE", "bogus">>,
      <<"WORKSPACE", "home">>,
      <<"WORKSPACE">>,
      <<"PROJECTS", "INCLUDE", "a", ",", "b">>,
      <<"TAGS", "EXCLUDE", "[", "a", "]">>,
      <<"GROUPBY", "project">>,
      <<"GROUPBY", "foo">>,
      <<"SORT", "duration", "ASC">>,
      <<"SORT", "time">>,
      <<"SHOW", "time", ",", "project">>,
      <<"TITLE", "\"Mine\"">>,
      <<"bogus">> }

RECURSIVE Flatten(_)
Flatten(frags) ==
    IF frags = << >> THEN << >> ELSE Head(frags) \o Flatten(Tail(frags))

\* Every source text of at most n fragments, as its sequence of fragments.
FragmentSeqs(n) == UNION { [1..k -> Fragments] : k \in 0..n }

(***************************************************************************)
(* The Parser object: its constructor, cursor operations and parse().      *)
(***************************************************************************)
\* Variant: the default sort order is ascending.
DefaultQueryAscending ==
    [ queryType |-> "summary",
      interval |-> NullInterval,
      selection |->
          [ projects |-> [include |-> << >>, exclude |-> << >>],
            clients |-> [include |-> << >>, exclude |-> << >>],
            tags |-> [include |-> << >>, exclude |-> << >>] ],
      groupBy |-> Null,
      sort |-> [field |-> "time", order |-> "asc"],
      list |-> [show |-> <<"project", "time">>],
      customTitle |-> Null,
      workspace |-> "work" ]

\* The all-default query built by the constructor.
DefaultQuery ==
    [ queryType |-> "summary",
      interval |-> NullInterval,
      selection |->
          [ projects |-> [include |-> << >>, exclude |-> << >>],
            clients |-> [include |-> << >>, exclude |-> << >>],
            tags |-> [include |-> << >>, exclude |-> << >>] ],
      groupBy |-> Null,
      sort |-> [field |-> "time", order |-> "desc"],
      list |-> [show |-> <<"project", "time">>],
      customTitle |-> Null,
      workspace |-> "work" ]

\* new Parser(source): the fields of a fresh instance.  err is the error a
\* call on the instance has thrown, NoError while none was.
NewParser(source) ==
    [ tokens |-> tokenize(source), query |-> DefaultQuery, pos |-> 0,
      err |-> NoError ]

\* Variant: the value is compared as written, without toLowerCase.
peekCaseSensitive(p, type, value) ==
    IF p.pos >= Len(p.tokens) THEN FALSE
    ELSE LET t == p.tokens[p.pos + 1] IN
         IF t.type # type THEN FALSE
         ELSE IF value # NoArg /\ t.value # value THEN FALSE ELSE TRUE

\* p.peek(type, value)
peek(p, type, value) ==
    IF p.pos >= Len(p.tokens) THEN FALSE
    ELSE LET t == p.tokens[p.pos + 1] IN
         IF t.type # type THEN FALSE
         ELSE IF value # NoArg /\ toLowerCase(t.value) # toLowerCase(value)
              THEN FALSE
              ELSE TRUE

\* Variant: the name of the error is not set.
errorUnnamed(p, message) == [name |-> "Error", message |-> message]

\* p.error(message): the ParsingError that is constructed (not thrown).
error(p, message) == [name |-> "ParsingError", message |-> message]

\* throw e, as seen on the instance: the error is recorded, nothing else
\* of the instance changes.
Throw(p, e) == [p EXCEPT !.err = e.message]

\* Variant: the end of the input is reported as one more token.
consumeErrorEofToken(p, type, value) ==
    IF p.pos >= Len(p.tokens)
    THEN IF type # NoArg
         THEN "Expected token type \"" \o type \o "\" but got \"EOF\""
         ELSE "Unexpected end of input"
    ELSE LET t == p.tokens[p.pos + 1] IN
         IF type # NoArg /\ t.type # type
         THEN "Expected token type \"" \o type \o "\" but got \""
                  \o t.type \o "\""
         ELSE IF value # NoArg /\ toLowerCase(t.value) # toLowerCase(value)
              THEN "Expected \"" \o value \o "\" but got \"" \o t.value
                       \o "\""
              ELSE NoError

\* Variant: the messages say what was expected but not what was found.
consumeErrorExpectedOnly(p, type, value) ==
    IF p.pos >= Len(p.tokens) THEN "Unexpected end of input"
    ELSE LET t == p.tokens[p.pos + 1] IN
         IF type # NoArg /\ t.type # type
         THEN "Expected token type \"" \o type \o "\""
         ELSE IF value # NoArg /\ toLowerCase(t.value) # toLowerCase(value)
              THEN "Expected \"" \o value \o "\""
              ELSE NoError

\* The message of the error p.consume(type, value) throws, NoError if it
\* throws none.
consumeError(p, type, value) ==
    IF p.pos >= Len(p.tokens) THEN "Unexpected end of input"
    ELSE LET t == p.tokens[p.pos + 1] IN
         IF type # NoArg /\ t.type # type
         THEN "Expected token type \"" \o type \o "\" but got \""
                  \o t.type \o "\""
         ELSE IF value # NoArg /\ toLowerCase(t.value) # toLowerCase(value)
              THEN "Expected \"" \o value \o "\" but got \"" \o t.value
                       \o "\""
              ELSE NoError

\* Variant: the cursor is not advanced on a match.
consumeNoAdvance(p, type, value) ==
    IF consumeError(p, type, value) # NoError
    THEN Throw(p, error(p, consumeError(p, type, value)))
    ELSE p

\* Variant: the cursor is advanced before the token is checked.
consumeAdvanceFirst(p, type, value) ==
    IF p.pos >= Len(p.tokens)
    THEN Throw(p, error(p, consumeError(p, type, value)))
    ELSE IF consumeError(p, type, value) # NoError
         THEN Throw([p EXCEPT !.pos = @ + 1],
                    error(p, consumeError(p, type, value)))
         ELSE [p EXCEPT !.pos = @ + 1]

\* The instance after p.consume(type, value).
consume(p, type, value) ==
    IF consumeError(p, type, value) # NoError
    THEN Throw(p, error(p, consumeError(p, type, value)))
    ELSE [p EXCEPT !.pos = @ + 1]

\* The token p.consume returns when it does not throw.
consumed(p) == p.tokens[p.pos + 1]

\* Variant: a matching peek advances the cursor, as consume does.
afterPeekAdvance(p, type, value) ==
    IF peek(p, type, value) THEN [p EXCEPT !.pos = @ + 1] ELSE p

\* The instance after p.peek(type, value): peek assigns nothing and has no
\* throw statement.
afterPeek(p, type, value) == p

\* The instance after p.error(message): the error is returned, not thrown.
afterError(p, message) == p

(***************************************************************************)
(* Grammar rule of the source tree: parseWorkspace.                        *)
(***************************************************************************)
\* Variant: an unknown name after WORKSPACE is skipped and the default
\* workspace stands, instead of an error being thrown.
parseWorkspaceSilentDefault(p) ==
    IF ~peek(p, "KEYWORD", "WORKSPACE") THEN p
    ELSE LET p1 == consume(p, "KEYWORD", "WORKSPACE") IN
         IF peek(p1, "WORD", "work") \/ peek(p1, "WORD", "learning")
         THEN [consume(p1, "WORD", NoArg) EXCEPT
                  !.query.workspace = consumed(p1).value]
         ELSE p1

\* Variant: the guarding peek is missing, so the keyword is demanded.
parseWorkspaceUnguarded(p) ==
    LET p1 == consume(p, "KEYWORD", "WORKSPACE") IN
    IF p1.err # NoError THEN p1
    ELSE IF peek(p1, "WORD", "work") \/ peek(p1, "WORD", "learning")
         THEN [consume(p1, "WORD", NoArg) EXCEPT
                  !.query.workspace = consumed(p1).value]
         ELSE Throw(p1, error(p1,
                  "Expected \"work\" or \"learning\" after WORKSPACE"))

\* Variant: the word after WORKSPACE is stored before it is validated.
parseWorkspaceStoreFirst(p) ==
    IF ~peek(p, "KEYWORD", "WORKSPACE") THEN p
    ELSE LET p1 == consume(p, "KEYWORD", "WORKSPACE") IN
         IF ~peek(p1, "WORD", NoArg)
         THEN Throw(p1, error(p1,
                  "Expected \"work\" or \"learning\" after WORKSPACE"))
         ELSE LET p2 == [consume(p1, "WORD", NoArg) EXCEPT
                            !.query.workspace = consumed(p1).value]
              IN  IF peek(p1, "WORD", "work") \/ peek(p1, "WORD", "learning")
                  THEN p2
                  ELSE Throw(p2, error(p2,
                           "Expected \"work\" or \"learning\" after WORKSPACE"))

parseWorkspace(p) ==
    IF ~peek(p, "KEYWORD", "WORKSPACE") THEN p
    ELSE LET p1 == consume(p, "KEYWORD", "WORKSPACE") IN
         IF p1.err # NoError THEN p1
         ELSE IF peek(p1, "WORD", "work") \/ peek(p1, "WORD", "learning")
              THEN LET p2 == consume(p1, "WORD", NoArg) IN
                   IF p2.err # NoError THEN p2
                   ELSE [p2 EXCEPT !.query.workspace = consumed(p1).value]
              ELSE Throw(p1, error(p1,
                       "Expected \"work\" or \"learning\" after WORKSPACE"))

(***************************************************************************)
(* Grammar rules modelled from the specification, section 4.3: each peeks  *)
(* for its introducing keyword, returns at once when it is absent, and     *)
(* otherwise consumes and validates the tokens of its clause.              *)
(***************************************************************************)
QueryTypes == {"summary", "list"}
GroupBys == {"project", "client", "entry", "date"}

\* TYPE + one WORD of the closed set.
parseQueryType(p) ==
    IF ~peek(p, "KEYWORD", "TYPE") THEN p
    ELSE LET p1 == consume(p, "KEYWORD", "TYPE") IN
         IF \E v \in QueryTypes : peek(p1, "WORD", v)
         THEN [consume(p1, "WORD", NoArg) EXCEPT
                  !.query.queryType = consumed(p1).value]
         ELSE Throw(p1, error(p1,
                  "Expected \"summary\" or \"list\" after TYPE"))

\* BETWEEN + DATE + AND + DATE; raises if the end is before the start.
\* p3 stands at the end date, p4 after it.
intervalSet(start, p3, p4) ==
    IF p4.err # NoError THEN p4
    ELSE IF DateOrd[consumed(p3).value] < DateOrd[start]
         THEN Throw(p4, error(p4, "Interval end is before its start"))
         ELSE [p4 EXCEPT !.query.interval = <<start, consumed(p3).value>>]

intervalEnd(start, p3) ==
    IF p3.err # NoError THEN p3
    ELSE intervalSet(start, p3, consume(p3, "DATE", NoArg))

\* p1 stands at the start date, p2 after it.
intervalAnd(p1, p2) ==
    IF p2.err # NoError THEN p2
    ELSE intervalEnd(consumed(p1).value, consume(p2, "KEYWORD", "AND"))

intervalStart(p1) == intervalAnd(p1, consume(p1, "DATE", NoArg))

parseQueryInterval(p) ==
    IF ~peek(p, "KEYWORD", "BETWEEN") THEN p
    ELSE intervalStart(consume(p, "KEYWORD", "BETWEEN"))

\* The identifiers of a selection list: WORD or NUMBER tokens separated
\* by ",".  The instance after the list and the identifiers read.
RECURSIVE selectionItems(_, _)
selectionMore(p1, got) ==
    IF peek(p1, "PUNCTUATION", ",")
    THEN selectionItems(consume(p1, "PUNCTUATION", ","), got)
    ELSE [p |-> p1, ids |-> got]

selectionItems(p, ids) ==
    IF ~(peek(p, "WORD", NoArg) \/ peek(p, "NUMBER", NoArg))
    THEN [p |-> Throw(p, error(p, "Expected an identifier in the list")),
          ids |-> ids]
    ELSE selectionMore(consume(p, NoArg, NoArg),
                       Append(ids, consumed(p).value))

\* One selection clause: entity keyword + INCLUDE/EXCLUDE + list,
\* optionally in brackets; the identifiers are added to the group's set.
selectionStore(p4, ids, entity, mode) ==
    IF p4.err # NoError THEN p4
    ELSE [p4 EXCEPT !.query.selection[entity][mode] = ids]

selectionClose(r, entity, mode, open) ==
    IF r.p.err # NoError THEN r.p
    ELSE IF open
         THEN selectionStore(consume(r.p, "PUNCTUATION", "]"), r.ids,
                             entity, mode)
         ELSE selectionStore(r.p, r.ids, entity, mode)

selectionOpen(p2, entity, mode) ==
    IF peek(p2, "PUNCTUATION", "[")
    THEN selectionClose(
             selectionItems(consume(p2, "PUNCTUATION", "["),
                            p2.query.selection[entity][mode]),
             entity, mode, TRUE)
    ELSE selectionClose(
             selectionItems(p2, p2.query.selection[entity][mode]),
             entity, mode, FALSE)

selectionMode(p1, entity) ==
    IF peek(p1, "KEYWORD", "INCLUDE")
    THEN selectionOpen(consume(p1, "KEYWORD", "INCLUDE"), entity, "include")
    ELSE IF peek(p1, "KEYWORD", "EXCLUDE")
         THEN selectionOpen(consume(p1, "KEYWORD", "EXCLUDE"), entity,
                            "exclude")
         ELSE Throw(p1, error(p1, "Expected INCLUDE or EXCLUDE"))

selectionClause(p, entity) ==
    selectionMode(consume(p, "KEYWORD", NoArg), entity)

\* Selection clauses repeat; each adds to the sets built so far.
RECURSIVE parseSelection(_)
selectionNext(p1) == IF p1.err # NoError THEN p1 ELSE parseSelection(p1)

parseSelection(p) ==
    IF peek(p, "KEYWORD", "PROJECTS")
    THEN selectionNext(selectionClause(p, "projects"))
    ELSE IF peek(p, "KEYWORD", "CLIENTS")
         THEN selectionNext(selectionClause(p, "clients"))
         ELSE IF peek(p, "KEYWORD", "TAGS")
              THEN selectionNext(selectionClause(p, "tags"))
              ELSE p

\* GROUPBY + one WORD of the closed set.
parseGroupBy(p) ==
    IF ~peek(p, "KEYWORD", "GROUPBY") THEN p
    ELSE LET p1 == consume(p, "KEYWORD", "GROUPBY") IN
         IF \E v \in GroupBys : peek(p1, "WORD", v)
         THEN [consume(p1, "WORD", NoArg) EXCEPT
                  !.query.groupBy = consumed(p1).value]
         ELSE Throw(p1, error(p1,
                  "Expected \"project\", \"client\", \"entry\" or \"date\" after GROUPBY"))

\* SORT + field WORD + optional ASC/DESC (default desc).
\* p1 stands at the field, p2 after it.
sortOrder(p1, p2) ==
    IF p2.err # NoError THEN p2
    ELSE IF peek(p2, "KEYWORD", "ASC") \/ peek(p2, "KEYWORD", "DESC")
         THEN [consume(p2, "KEYWORD", NoArg) EXCEPT !.query.sort =
                  [field |-> consumed(p1).value,
                   order |-> toLowerCase(consumed(p2).value)]]
         ELSE [p2 EXCEPT !.query.sort =
                  [field |-> consumed(p1).value, order |-> "desc"]]

sortField(p1) == sortOrder(p1, consume(p1, "WORD", NoArg))

parseSort(p) ==
    IF ~peek(p, "KEYWORD", "SORT") THEN p
    ELSE sortField(consume(p, "KEYWORD", "SORT"))

\* The fields of a SHOW list: WORDs separated by ",", in written order.
RECURSIVE listItems(_, _)
listMore(p, p1, fields) ==
    IF p1.err # NoError THEN [p |-> p1, fields |-> fields]
    ELSE IF peek(p1, "PUNCTUATION", ",")
         THEN listItems(consume(p1, "PUNCTUATION", ","),
                        Append(fields, consumed(p).value))
         ELSE [p |-> p1, fields |-> Append(fields, consumed(p).value)]

listItems(p, fields) == listMore(p, consume(p, "WORD", NoArg), fields)

\* SHOW + comma-separated field WORDs.
listStore(r) ==
    IF r.p.err # NoError THEN r.p
    ELSE [r.p EXCEPT !.query.list = [show |-> r.fields]]

parseList(p) ==
    IF ~peek(p, "KEYWORD", "SHOW") THEN p
    ELSE listStore(listItems(consume(p, "KEYWORD", "SHOW"), << >>))

\* TITLE + STRING, stored verbatim.
\* p1 stands at the string, p2 after it.
titleStore(p1, p2) ==
    IF p2.err # NoError THEN p2
    ELSE [p2 EXCEPT !.query.customTitle = consumed(p1).value]

titleString(p1) == titleStore(p1, consume(p1, "STRING", NoArg))

parseCustomTitle(p) ==
    IF ~peek(p, "KEYWORD", "TITLE") THEN p
    ELSE titleString(consume(p, "KEYWORD", "TITLE"))

(***************************************************************************)
(* parse(): the rules in their fixed order, then return this.query.        *)
(***************************************************************************)
\* Variant: the workspace rule is called after the selection rule.
ParseOrderWorkspaceLate ==
    << "parseQueryType", "parseQueryInterval", "parseSelection",
       "parseWorkspace", "parseGroupBy", "parseSort", "parseList",
       "parseCustomTitle" >>

ParseOrder ==
    << "parseQueryType", "parseQueryInterval", "parseWorkspace",
       "parseSelection", "parseGroupBy", "parseSort", "parseList",
       "parseCustomTitle" >>

\* The call rule(this) of parse().
CallRule(name, p) ==
    CASE name = "parseQueryType" -> parseQueryType(p)
      [] name = "parseQueryInterval" -> parseQueryInterval(p)
      [] name = "parseWorkspace" -> parseWorkspace(p)
      [] name = "parseSelection" -> parseSelection(p)
      [] name = "parseGroupBy" -> parseGroupBy(p)
      [] name = "parseSort" -> parseSort(p)
      [] name = "parseList" -> parseList(p)
      [] name = "parseCustomTitle" -> parseCustomTitle(p)

\* Variant: parse() catches the error of a rule and goes on.
ParseControlCatch(p, n) == [phase |-> "parsing", rule |-> n + 1]

\* Where parse() stands after its n-th rule call left the instance as p:
\* parse() has no try/catch, so a thrown error leaves parse() at once.
ParseControl(p, n) ==
    IF p.err # NoError
    THEN [phase |-> "raised", rule |-> n]
    ELSE [phase |-> "parsing", rule |-> n + 1]

(***************************************************************************)
(* State.                                                                  *)
(***************************************************************************)
VARIABLES
    configured, \* workspace names the plugin settings provide
    source,     \* per Parser instance: the source text, as lexemes
    tokens,     \* per instance: this.tokens
    query,      \* per instance: this.query
    pos,        \* per instance: this.pos
    phase,      \* per instance: "constructed", "parsing", "returned", "raised"
    rule,       \* per instance: index in ParseOrder of the next rule call
    thrown,     \* per instance: message of the error parse() threw
    result,     \* per instance: << >>, or <<q>> once parse() returned q
    calls,      \* per instance: history of the rule calls parse() made
    last,       \* per instance: the caller's last direct cursor call
    ApiAvailable,         \* service: this._ApiAvailable
    statusBarText,        \* service: text of this._statusBarItem
    currentTimerInterval, \* service: this._currentTimerInterval, 0 for null
    statusBarInterval,    \* service: this._statusBarInterval, 0 for null
    intervals,            \* the intervals the window holds active
    handles,              \* number of window.setInterval calls made
    currentTimeEntry,     \* service: this._currentTimeEntry
    currentTimer,         \* value last set with setCurrentTimer
    pending,              \* service: the calls standing at an await
    apiUp,                \* the Clockify API answers requests
    clock,                \* parity of the firings of the polling interval
    done,                 \* the call of the service that finished last
    clockifyApiKey,       \* ApiManager: settings.clockifyApiKey
    requests,             \* ApiManager: requestUrl calls in flight
    settled               \* ApiManager: the call that settled last

parserVars ==
    << configured, source, tokens, query, pos, phase, rule, thrown, result,
       calls, last >>

serviceVars ==
    << ApiAvailable, statusBarText, currentTimerInterval, statusBarInterval,
       intervals, handles, currentTimeEntry, currentTimer, pending, apiUp,
       clock, done >>

apiVars == << clockifyApiKey, requests, settled >>

vars == << parserVars, serviceVars, apiVars >>

Instances == DOMAIN source

\* Variant: the cursor position is one field shared by all Parser objects.
ThisSharedCursor(i) ==
    [ tokens |-> tokens[i], query |-> query[i], pos |-> pos[1],
      err |-> NoError ]

\* The Parser object of instance i.
This(i) ==
    [ tokens |-> tokens[i], query |-> query[i], pos |-> pos[i],
      err |-> NoError ]

\* The workspaces of PluginSettings: workWorkspace and learningWorkspace.
SettingsWorkspaces == <<"work", "learning">>

\* Lists a reporting collaborator could supply as the permitted set.
ConfiguredLists ==
    { SettingsWorkspaces, <<"work">>, <<"work", "learning", "home">> }

\* No direct call of peek, consume or error was made since parse().
NoCall ==
    [ op |-> "none", type |-> NoArg, value |-> NoArg, from |-> 0,
      bool |-> FALSE, token |-> << >>, error |-> << >>, threw |-> NoError ]

\* One Parser constructed per source text of srcs.
Constructed(srcs) ==
    /\ source = srcs
    /\ tokens = [i \in DOMAIN srcs |-> NewParser(srcs[i]).tokens]
    /\ query = [i \in DOMAIN srcs |-> NewParser(srcs[i]).query]
    /\ pos = [i \in DOMAIN srcs |-> NewParser(srcs[i]).pos]
    /\ phase = [i \in DOMAIN srcs |-> "constructed"]
    /\ rule = [i \in DOMAIN srcs |-> 1]
    /\ thrown = [i \in DOMAIN srcs |-> NoError]
    /\ result = [i \in DOMAIN srcs |-> << >>]
    /\ calls = [i \in DOMAIN srcs |-> << >>]
    /\ last = [i \in DOMAIN srcs |-> NoCall]

(***************************************************************************)
(* ClockifyService (lib/toggl/TogglService.ts): the API status, the two    *)
(* polling intervals and the current timer.  All of its methods run on the *)
(* one JavaScript thread: a method runs without interruption up to an      *)
(* await, and resumes when the awaited request settles.  `pending` holds   *)
(* the calls that stand at an await.                                       *)
(***************************************************************************)
ApiStatus == {"AVAILABLE", "NO_TOKEN", "UNREACHABLE", "UNTESTED", "DEGRADED"}

\* _currentTimeEntry: null
NoTimer == << >>

\* project_id: null
NoProject == 0

NoNotice == ""

\* get workspaceId: the id of the workspace of the plugin settings, a
\* string.  Clockify ids are strings of hexadecimal digits (shortened here).
workspaceId == "5e3a1b"

\* parseInt(id, 36): the digits read in base 36.
parseInt36(id) ==
    CASE id = "5e3a1b" -> 325998479
      [] id = "600000" -> 362797056

\* Number(id), the conversion a loose comparison with a number applies to
\* a string: <<n>> for a decimal literal, << >> (NaN) otherwise.
ToNumber(id) ==
    CASE id = "5e3a1b" -> << >>
      [] id = "600000" -> <<600000>>

\* number != string
LooseNotEqual(n, id) == ToNumber(id) = << >> \/ ToNumber(id)[1] # n

\* _convertToTogglTimeEntry: the TimeEntry made of a running Clockify entry.
TimeEntry(id, description, project, tags) ==
    << [ id |-> id, description |-> description, project_id |-> project,
         start |-> "09:00", tag_ids |-> tags,
         workspace_id |-> parseInt36(workspaceId) ] >>

\* What getCurrentTimer can return: no running timer, a timer, the timer
\* with its description edited, with its tags listed in another order, with
\* a project, and another timer.
FetchedEntries ==
    { NoTimer,
      TimeEntry(1, "a", NoProject, <<1, 2>>),
      TimeEntry(1, "b", NoProject, <<1, 2>>),
      TimeEntry(1, "a", NoProject, <<2, 1>>),
      TimeEntry(1, "a", 5, <<1, 2>>),
      TimeEntry(2, "a", NoProject, <<1, 2>>) }

FetchedFew == { NoTimer, TimeEntry(1, "a", NoProject, <<1, 2>>) }

\* get isApiAvailable
isApiAvailable(status) == status = "AVAILABLE"

\* The notice noticeAPINotAvailable shows, NoNotice if it shows none.
noticeAPINotAvailable(status) ==
    CASE status = "NO_TOKEN" -> "No Clockify API key is set."
      [] status = "UNREACHABLE" -> "The Clockify API is unreachable."
      [] OTHER -> NoNotice

isTagsChanged(old_tag_ids, new_tags_ids) ==
    IF Len(old_tag_ids) # Len(new_tags_ids) THEN TRUE
    ELSE \E k \in 1..Len(old_tag_ids) :
             old_tag_ids[k] \notin
                 { new_tags_ids[n] : n \in 1..Len(new_tags_ids) }

\* updateCurrentTimer, "Drop timers from different workspaces".
DropOtherWorkspaces(curr) ==
    IF /\ curr # NoTimer
       /\ LooseNotEqual(curr[1].workspace_id, workspaceId)
       /\ curr[1].project_id # NoProject
    THEN NoTimer
    ELSE curr

DetailsChanged(p, c) ==
    \/ p.description # c.description
    \/ p.project_id # c.project_id
    \/ p.start # c.start
    \/ isTagsChanged(p.tag_ids, c.tag_ids)

\* updateCurrentTimer, the value of `changed`.
Changed(prev, curr) ==
    IF curr # NoTimer
    THEN IF prev = NoTimer THEN TRUE
         ELSE IF prev[1].id # curr[1].id THEN TRUE
              ELSE DetailsChanged(prev[1], curr[1])
    ELSE prev # NoTimer

\* updateStatusBarText: the text set (the running time is left out).
StatusBarText(status, entry) ==
    IF status = "UNTESTED" THEN "Connecting to Clockify..."
    ELSE IF entry = NoTimer THEN "-"
         ELSE entry[1].description

\* A call standing at an await; prev is the `prev` of updateCurrentTimer,
\* before the intervals that were active when refreshApiConnection began.
Await(op, prev, before) == [op |-> op, prev |-> prev, before |-> before]

RemoveAt(seq, k) == SubSeq(seq, 1, k - 1) \o SubSeq(seq, k + 1, Len(seq))

\* No method of the service has finished yet.
NoDone ==
    [ op |-> "none", status |-> "UNTESTED", token |-> NoArg, test |-> "none",
      started |-> FALSE, cleared |-> TRUE, ran |-> FALSE,
      notice |-> NoNotice, failed |-> FALSE, published |-> FALSE,
      refetched |-> FALSE ]

\* new ClockifyService(plugin)
ServiceConstructed ==
    /\ ApiAvailable = "UNTESTED"
    /\ statusBarText = "Connecting to Clockify..."
    /\ currentTimerInterval = 0
    /\ statusBarInterval = 0
    /\ intervals = {}
    /\ handles = 0
    /\ currentTimeEntry = NoTimer
    /\ currentTimer = NoTimer
    /\ pending = << >>
    /\ apiUp = TRUE
    /\ clock = 0
    /\ done = NoDone

(***************************************************************************)
(* ApiManager (lib/clockify/ApiManager of the Clockify service): get, post *)
(* and patch build the headers from the API key of the settings and hand   *)
(* the request to requestUrl.                                              *)
(***************************************************************************)
KeyNotSet == "Clockify API Key is not set."

\* The values of settings.clockifyApiKey: unset (empty), or a key.
ApiKeys == {"", "key1", "key2"}

Methods == {"GET", "POST", "PATCH"}

\* What requestUrl can throw.
RequestErrors == {"Request failed, status 401", "net::ERR_FAILED"}

\* Variant: the headers are built without looking at the key.
getHeadersUnchecked(key) ==
    [ threw |-> NoError,
      headers |-> [ContentType |-> "application/json", XApiKey |-> key] ]

\* getHeaders(): the headers, or the error thrown.
getHeaders(key) ==
    IF key = ""
    THEN [ threw |-> KeyNotSet, headers |-> << >> ]
    ELSE [ threw |-> NoError,
           headers |-> [ContentType |-> "application/json", XApiKey |-> key] ]

\* No call of get, post or patch has settled yet.
NoCallSettled ==
    [ method |-> "none", outcome |-> "none", error |-> NoError,
      requested |-> FALSE, requestError |-> NoError ]

\* new ApiManager(settings)
ApiManagerConstructed ==
    /\ clockifyApiKey = ""
    /\ requests = << >>
    /\ settled = NoCallSettled

\* The plugin's service and ApiManager, constructed and not used.
CollaboratorsIdle == ServiceConstructed /\ ApiManagerConstructed

\* No Parser is constructed.
NoParsers == configured = SettingsWorkspaces /\ Constructed(<< >>)

\* One code block: one Parser, any source text of the model.
Init ==
    /\ CollaboratorsIdle
    /\ configured = SettingsWorkspaces
    /\ \E f \in FragmentSeqs(MaxClauses) : Constructed(<<Flatten(f)>>)

(***************************************************************************)
(* Actions.                                                                *)
(***************************************************************************)
\* The caller calls parse() on instance i.
ParseEnter(i) ==
    /\ phase[i] = "constructed"
    /\ phase' = [phase EXCEPT ![i] = "parsing"]
    /\ last' = [last EXCEPT ![i] = NoCall]
    /\ UNCHANGED << serviceVars, apiVars, configured, source, tokens, query, pos, rule, thrown,
                    result, calls >>

\* Variant: the cursor position is written to every Parser object.
RuleCalledSharedCursor(i, after, ctl) ==
    /\ query' = [query EXCEPT ![i] = after.query]
    /\ pos' = [k \in Instances |-> after.pos]
    /\ thrown' = [thrown EXCEPT ![i] = after.err]
    /\ phase' = [phase EXCEPT ![i] = ctl.phase]
    /\ rule' = [rule EXCEPT ![i] = ctl.rule]
    /\ calls' = [calls EXCEPT ![i] =
           Append(@, [name |-> ParseOrder[rule[i]], from |-> pos[i],
                      to |-> after.pos, threw |-> after.err])]

\* The rule call of instance i has left the instance as `after`.
RuleCalled(i, after, ctl) ==
    /\ query' = [query EXCEPT ![i] = after.query]
    /\ pos' = [pos EXCEPT ![i] = after.pos]
    /\ thrown' = [thrown EXCEPT ![i] = after.err]
    /\ phase' = [phase EXCEPT ![i] = ctl.phase]
    /\ rule' = [rule EXCEPT ![i] = ctl.rule]
    /\ calls' = [calls EXCEPT ![i] =
           Append(@, [name |-> ParseOrder[rule[i]], from |-> pos[i],
                      to |-> after.pos, threw |-> after.err])]

RuleResult(i, after) == RuleCalled(i, after, ParseControl(after, rule[i]))

\* parse() of instance i makes its next rule call.
ParseRule(i) ==
    /\ phase[i] = "parsing"
    /\ rule[i] <= Len(ParseOrder)
    /\ RuleResult(i, CallRule(ParseOrder[rule[i]], This(i)))
    /\ UNCHANGED << serviceVars, apiVars, configured, source, tokens, result, last >>

\* parse() of instance i returns this.query.
ParseReturn(i) ==
    /\ phase[i] = "parsing"
    /\ rule[i] > Len(ParseOrder)
    /\ result' = [result EXCEPT ![i] = <<query[i]>>]
    /\ phase' = [phase EXCEPT ![i] = "returned"]
    /\ UNCHANGED << serviceVars, apiVars, configured, source, tokens, query, pos, rule, thrown,
                    calls, last >>

Next ==
    \/ \E i \in Instances : ParseEnter(i)
    \/ \E i \in Instances : ParseRule(i)
    \/ \E i \in Instances : ParseReturn(i)

Spec == Init /\ [][Next]_vars

(***************************************************************************)
(* Further specifications.                                                 *)
(***************************************************************************)
\* The source text f with its clause fragments written in any other order.
Reorderings(f) ==
    { [k \in 1..Len(f) |-> f[perm[k]]] : perm \in Permutations(1..Len(f)) }

\* Two code blocks: two Parsers, the second built from the clauses of the
\* first written in the same or in another order.
InitPair ==
    /\ CollaboratorsIdle
    /\ configured = SettingsWorkspaces
    /\ \E f \in FragmentSeqs(MaxPairClauses) :
           \E g \in Reorderings(f) : Constructed(<<Flatten(f), Flatten(g)>>)

SpecPair == InitPair /\ [][Next]_vars

\* One Parser, under any of the lists a collaborator could supply.
InitConfigured ==
    /\ CollaboratorsIdle
    /\ configured \in ConfiguredLists
    /\ \E f \in FragmentSeqs(MaxClauses) : Constructed(<<Flatten(f)>>)

SpecConfigured == InitConfigured /\ [][Next]_vars

\* Variant: a further call of parse() starts again at the first token.
ParseAgainRewind(i) ==
    /\ phase[i] \in {"returned", "raised"}
    /\ phase' = [phase EXCEPT ![i] = "parsing"]
    /\ rule' = [rule EXCEPT ![i] = 1]
    /\ thrown' = [thrown EXCEPT ![i] = NoError]
    /\ calls' = [calls EXCEPT ![i] = << >>]
    /\ last' = [last EXCEPT ![i] = NoCall]
    /\ pos' = [pos EXCEPT ![i] = 0]
    /\ UNCHANGED << serviceVars, apiVars, configured, source, tokens, query, result >>

(***************************************************************************)
(* All public calls: parse() may be called again on the same instance, and *)
(* peek, consume and error are public and may be called by the caller      *)
(* whenever parse() is not running.                                        *)
(***************************************************************************)
\* The caller calls parse() again; result still holds the value of the
\* Query as the previous call returned it (if it returned one), while the
\* object returned is this.query itself.
ParseAgain(i) ==
    /\ phase[i] \in {"returned", "raised"}
    /\ phase' = [phase EXCEPT ![i] = "parsing"]
    /\ rule' = [rule EXCEPT ![i] = 1]
    /\ thrown' = [thrown EXCEPT ![i] = NoError]
    /\ calls' = [calls EXCEPT ![i] = << >>]
    /\ last' = [last EXCEPT ![i] = NoCall]
    /\ UNCHANGED << serviceVars, apiVars, configured, source, tokens, query, pos, result >>

\* Arguments of the direct calls of the model.
ArgTypes == {NoArg, "KEYWORD", "WORD"}
ArgValues == {NoArg, "WORKSPACE", "work"}
ArgMessages == {"Expected \"work\" or \"learning\" after WORKSPACE", "x"}

\* A direct call on instance i has left the instance as `after`; rec
\* describes the call and what it returned or threw.
CursorCalled(i, after, rec) ==
    /\ phase[i] # "parsing"
    /\ tokens' = [tokens EXCEPT ![i] = after.tokens]
    /\ query' = [query EXCEPT ![i] = after.query]
    /\ pos' = [pos EXCEPT ![i] = after.pos]
    /\ last' = [last EXCEPT ![i] = rec]
    /\ UNCHANGED << serviceVars, apiVars, configured, source, phase, rule, thrown, result, calls >>

\* The caller calls peek(type, value) on instance i.
PeekCall(i, type, value) ==
    CursorCalled(i, afterPeek(This(i), type, value),
        [ NoCall EXCEPT !.op = "peek", !.type = type, !.value = value,
              !.from = pos[i],
              !.bool = peek(This(i), type, value),
              !.threw = afterPeek(This(i), type, value).err ])

\* What consume returned, given the instance `after` it left.
ConsumeReturn(i, after) ==
    IF after.err = NoError THEN <<consumed(This(i))>> ELSE << >>

\* The caller calls consume(type, value) on instance i.
ConsumeCalled(i, type, value, after) ==
    CursorCalled(i, [after EXCEPT !.err = NoError],
        [ NoCall EXCEPT !.op = "consume", !.type = type, !.value = value,
              !.from = pos[i],
              !.token = ConsumeReturn(i, after),
              !.threw = after.err ])

ConsumeCall(i, type, value) ==
    ConsumeCalled(i, type, value, consume(This(i), type, value))

\* The caller calls error(message) on instance i.
ErrorCall(i, message) ==
    CursorCalled(i, [afterError(This(i), message) EXCEPT !.err = NoError],
        [ NoCall EXCEPT !.op = "error", !.value = message,
              !.from = pos[i],
              !.error = <<error(This(i), message)>>,
              !.threw = afterError(This(i), message).err ])

NextCalls ==
    \/ Next
    \/ \E i \in Instances : ParseAgain(i)
    \/ \E i \in Instances : \E t \in ArgTypes, v \in ArgValues :
           PeekCall(i, t, v)
    \/ \E i \in Instances : \E t \in ArgTypes, v \in ArgValues :
           ConsumeCall(i, t, v)
    \/ \E i \in Instances : \E m \in ArgMessages : ErrorCall(i, m)

InitCalls ==
    /\ CollaboratorsIdle
    /\ configured = SettingsWorkspaces
    /\ \E f \in FragmentSeqs(MaxCallClauses) : Constructed(<<Flatten(f)>>)

SpecCalls == InitCalls /\ [][NextCalls]_vars

\* One Parser on which the caller may call parse() again.
NextAgain ==
    \/ Next
    \/ \E i \in Instances : ParseAgain(i)

InitAgain ==
    /\ CollaboratorsIdle
    /\ configured = SettingsWorkspaces
    /\ \E f \in FragmentSeqs(MaxPairClauses) : Constructed(<<Flatten(f)>>)

SpecAgain == InitAgain /\ [][NextAgain]_vars

(***************************************************************************)
(* The methods of ClockifyService.                                         *)
(***************************************************************************)
\* window.clearInterval(id) for the two ids the service holds.
ClearIntervals(set) ==
    { x \in set : x.id \notin {currentTimerInterval, statusBarInterval} }

\* refreshApiConnection(token) with an API key: up to `await setToken`.
RefreshWithToken ==
    /\ Len(pending) < MaxPending
    /\ handles + 2 * (1 + Cardinality({ k \in 1..Len(pending) :
                          pending[k].op \in {"setToken", "preload"} }))
           <= MaxHandles
    /\ ApiAvailable' = "UNTESTED"
    /\ statusBarText' = "Connecting to Clockify..."
    /\ intervals' = ClearIntervals(intervals)
    /\ pending' = Append(pending, Await("setToken", NoTimer,
                                        { x.id : x \in intervals }))
    /\ UNCHANGED << currentTimerInterval, statusBarInterval, handles,
                    currentTimeEntry, currentTimer, apiUp, clock, done,
                    parserVars, apiVars >>

\* refreshApiConnection(token) with a null or empty token: the whole call.
RefreshWithoutToken ==
    /\ intervals' = ClearIntervals(intervals)
    /\ statusBarText' = "Open settings to add a Clockify API key."
    /\ ApiAvailable' = "NO_TOKEN"
    /\ done' = [ NoDone EXCEPT !.op = "refresh", !.status = "NO_TOKEN",
                     !.notice = noticeAPINotAvailable("NO_TOKEN"),
                     !.cleared = ({ x.id : x \in intervals }
                                      \cap { x.id : x \in intervals' } = {}) ]
    /\ UNCHANGED << currentTimerInterval, statusBarInterval, handles,
                    currentTimeEntry, currentTimer, pending, apiUp, clock,
                    parserVars, apiVars >>

\* setToken resolved: status AVAILABLE, up to `await _preloadWorkspaceData`.
SetTokenResolved(k) ==
    /\ ApiAvailable' = "AVAILABLE"
    /\ pending' = [pending EXCEPT ![k].op = "preload"]
    /\ UNCHANGED << statusBarText, currentTimerInterval, statusBarInterval,
                    intervals, handles, currentTimeEntry, currentTimer,
                    done >>

\* setToken threw: the catch branch, and refreshApiConnection returns.
SetTokenRejected(k) ==
    /\ statusBarText' = "Cannot connect to Clockify API"
    /\ ApiAvailable' = "UNREACHABLE"
    /\ pending' = RemoveAt(pending, k)
    /\ done' = [ NoDone EXCEPT !.op = "refresh", !.token = "key",
                     !.test = "failed", !.status = "UNREACHABLE",
                     !.notice = noticeAPINotAvailable("UNREACHABLE"),
                     !.cleared =
                         (pending[k].before \cap { x.id : x \in intervals }
                              = {}) ]
    /\ UNCHANGED << currentTimerInterval, statusBarInterval, intervals,
                    handles, currentTimeEntry, currentTimer >>

\* The connection test of setToken settles.
SetTokenSettle(k) ==
    /\ k \in 1..Len(pending)
    /\ pending[k].op = "setToken"
    /\ IF apiUp THEN SetTokenResolved(k) ELSE SetTokenRejected(k)
    /\ UNCHANGED << apiUp, clock,
                    parserVars, apiVars >>

\* The synchronous part of updateCurrentTimer: the calls standing at an
\* await when the call at position k is replaced by a call of it.
updateCurrentTimerAt(k) ==
    IF isApiAvailable(ApiAvailable)
    THEN [pending EXCEPT ![k] = Await("user", currentTimeEntry, {})]
    ELSE RemoveAt(pending, k)

\* The preload resolved: startTimerInterval, startStatusBarInterval, and
\* refreshApiConnection returns.
PreloadResolved(k) ==
    /\ pending' = updateCurrentTimerAt(k)
    /\ currentTimerInterval' = handles + 1
    /\ statusBarText' = StatusBarText(ApiAvailable, currentTimeEntry)
    /\ statusBarInterval' = handles + 2
    /\ handles' = handles + 2
    /\ intervals' = intervals \cup
           { [id |-> handles + 1, fn |-> "updateCurrentTimer"],
             [id |-> handles + 2, fn |-> "updateStatusBarText"] }
    /\ done' = [ NoDone EXCEPT !.op = "refresh", !.token = "key",
                     !.test = "ok", !.status = ApiAvailable,
                     !.started = TRUE,
                     !.cleared =
                         (pending[k].before \cap { x.id : x \in intervals }
                              = {}) ]
    /\ UNCHANGED << ApiAvailable, currentTimeEntry, currentTimer >>

\* The preload threw: refreshApiConnection throws what it threw.
PreloadRejected(k) ==
    /\ pending' = RemoveAt(pending, k)
    /\ done' = [ NoDone EXCEPT !.op = "refresh", !.token = "key",
                     !.test = "ok", !.status = ApiAvailable,
                     !.failed = TRUE,
                     !.cleared =
                         (pending[k].before \cap { x.id : x \in intervals }
                              = {}) ]
    /\ UNCHANGED << ApiAvailable, statusBarText, currentTimerInterval,
                    statusBarInterval, intervals, handles, currentTimeEntry,
                    currentTimer >>

\* The three requests of _preloadWorkspaceData settle.
PreloadSettle(k) ==
    /\ k \in 1..Len(pending)
    /\ pending[k].op = "preload"
    /\ IF apiUp THEN PreloadResolved(k) ELSE PreloadRejected(k)
    /\ UNCHANGED << apiUp, clock,
                    parserVars, apiVars >>

\* The interval the window holds under `id` fires: updateCurrentTimer up to
\* `await getCurrentTimer`.
TimerTick(id) ==
    /\ [id |-> id, fn |-> "updateCurrentTimer"] \in intervals
    /\ isApiAvailable(ApiAvailable) => Len(pending) < MaxPending
    /\ clock' = 1 - clock
    /\ pending' = IF isApiAvailable(ApiAvailable)
                  THEN Append(pending, Await("user", currentTimeEntry, {}))
                  ELSE pending
    /\ UNCHANGED << ApiAvailable, statusBarText, currentTimerInterval,
                    statusBarInterval, intervals, handles, currentTimeEntry,
                    currentTimer, apiUp, done,
                    parserVars, apiVars >>

\* The status bar interval fires: updateStatusBarText.
StatusBarTick(id) ==
    /\ [id |-> id, fn |-> "updateStatusBarText"] \in intervals
    /\ statusBarText' = StatusBarText(ApiAvailable, currentTimeEntry)
    /\ UNCHANGED << ApiAvailable, currentTimerInterval, statusBarInterval,
                    intervals, handles, currentTimeEntry, currentTimer,
                    pending, apiUp, clock, done,
                    parserVars, apiVars >>

\* getCurrentTimer threw: the catch branch of updateCurrentTimer.
updateCurrentTimerCatch(k) ==
    /\ ApiAvailable' = "DEGRADED"
    /\ pending' = RemoveAt(pending, k)
    /\ done' = [ NoDone EXCEPT !.op = "poll", !.failed = TRUE,
                     !.status = "DEGRADED",
                     !.notice = IF ApiAvailable # "DEGRADED"
                                THEN "Error updating active Clockify time entry. Retrying..."
                                ELSE NoNotice ]
    /\ UNCHANGED << statusBarText, currentTimerInterval, statusBarInterval,
                    intervals, handles, currentTimeEntry, currentTimer >>

\* getCurrentTimer: the request of _getCurrentUserId settles; its error is
\* thrown to updateCurrentTimer.
UserIdSettle(k) ==
    /\ k \in 1..Len(pending)
    /\ pending[k].op = "user"
    /\ IF apiUp
       THEN /\ pending' = [pending EXCEPT ![k].op = "entries"]
            /\ UNCHANGED << ApiAvailable, statusBarText, currentTimerInterval,
                            statusBarInterval, intervals, handles,
                            currentTimeEntry, currentTimer, done >>
       ELSE updateCurrentTimerCatch(k)
    /\ UNCHANGED << apiUp, clock,
                    parserVars, apiVars >>

\* updateCurrentTimer after `await getCurrentTimer` returned `fetched`.
updateCurrentTimerResume(k, prev, curr) ==
    /\ ApiAvailable' = IF ApiAvailable = "DEGRADED" THEN "AVAILABLE"
                       ELSE ApiAvailable
    /\ currentTimer' = IF Changed(prev, curr) THEN curr ELSE currentTimer
    /\ currentTimeEntry' = curr
    /\ pending' = RemoveAt(pending, k)
    /\ done' = [ NoDone EXCEPT !.op = "poll", !.status = ApiAvailable',
                     !.published = Changed(prev, curr),
                     !.refetched = Changed(prev, curr) ]
    /\ UNCHANGED << statusBarText, currentTimerInterval, statusBarInterval,
                    intervals, handles >>

\* getCurrentTimer: the request of the running time entry settles; its
\* error is caught in getCurrentTimer, which then returns null.
EntriesSettle(k, entry) ==
    /\ k \in 1..Len(pending)
    /\ pending[k].op = "entries"
    /\ updateCurrentTimerResume(k, pending[k].prev,
           DropOtherWorkspaces(IF apiUp THEN entry ELSE NoTimer))
    /\ UNCHANGED << apiUp, clock,
                    parserVars, apiVars >>

\* executeIfAPIAvailable(func) for the command `op`, whose function leaves
\* the calls standing at an await as `body`.
executeIfAPIAvailable(op, body) ==
    /\ pending' = IF isApiAvailable(ApiAvailable) THEN body ELSE pending
    /\ done' = [ NoDone EXCEPT !.op = op, !.status = ApiAvailable,
                     !.ran = isApiAvailable(ApiAvailable),
                     !.notice = IF isApiAvailable(ApiAvailable) THEN NoNotice
                                ELSE noticeAPINotAvailable(ApiAvailable) ]
    /\ UNCHANGED << ApiAvailable, statusBarText, currentTimerInterval,
                    statusBarInterval, intervals, handles, currentTimeEntry,
                    currentTimer, apiUp, clock,
                    parserVars, apiVars >>

\* startTimer(): up to `await getRecentTimeEntries`.
startTimer ==
    /\ isApiAvailable(ApiAvailable) => Len(pending) < MaxPending
    /\ executeIfAPIAvailable("startTimer",
           Append(pending, Await("recent", NoTimer, {})))

\* stopTimer(): the request is sent only for a current time entry.
stopTimer ==
    /\ isApiAvailable(ApiAvailable) => Len(pending) < MaxPending
    /\ executeIfAPIAvailable("stopTimer",
           IF currentTimeEntry # NoTimer
           THEN Append(pending, Await("stop", NoTimer, {}))
           ELSE pending)

\* startTimer: getRecentTimeEntries settles; the user picks an entry and
\* the request of _apiManager.startTimer is sent.
RecentSettle(k) ==
    /\ k \in 1..Len(pending)
    /\ pending[k].op = "recent"
    /\ pending' = IF apiUp THEN [pending EXCEPT ![k].op = "start"]
                  ELSE RemoveAt(pending, k)
    /\ UNCHANGED << ApiAvailable, statusBarText, currentTimerInterval,
                    statusBarInterval, intervals, handles, currentTimeEntry,
                    currentTimer, apiUp, clock, done,
                    parserVars, apiVars >>

\* The request of _apiManager.startTimer or .stopTimer settles: then
\* updateCurrentTimer() is called, up to `await getCurrentTimer`.
CommandSettle(k) ==
    /\ k \in 1..Len(pending)
    /\ pending[k].op \in {"start", "stop"}
    /\ pending' = IF apiUp THEN updateCurrentTimerAt(k)
                  ELSE RemoveAt(pending, k)
    /\ UNCHANGED << ApiAvailable, statusBarText, currentTimerInterval,
                    statusBarInterval, intervals, handles, currentTimeEntry,
                    currentTimer, apiUp, clock, done,
                    parserVars, apiVars >>

\* The Clockify API stops answering, or answers again.
ApiOutage ==
    /\ apiUp' = ~apiUp
    /\ UNCHANGED << ApiAvailable, statusBarText, currentTimerInterval,
                    statusBarInterval, intervals, handles, currentTimeEntry,
                    currentTimer, pending, clock, done,
                    parserVars, apiVars >>

(***************************************************************************)
(* The methods of ApiManager.                                              *)
(***************************************************************************)
\* The user edits the API key in the settings.
SetApiKey(key) ==
    /\ key # clockifyApiKey
    /\ clockifyApiKey' = key
    /\ UNCHANGED << requests, settled, parserVars, serviceVars >>

\* get, post or patch, given what getHeaders() did: the promise is rejected
\* with the error it threw, or request(options) calls requestUrl.
Requested(method, got) ==
    /\ requests' = IF got.threw # NoError THEN requests
                   ELSE Append(requests,
                               [method |-> method, headers |-> got.headers])
    /\ settled' = IF got.threw # NoError
                  THEN [ NoCallSettled EXCEPT !.method = method,
                             !.outcome = "rejected", !.error = got.threw ]
                  ELSE settled
    /\ UNCHANGED << clockifyApiKey, parserVars, serviceVars >>

\* get(endpoint), post(endpoint, body) or patch(endpoint, body)
ApiCall(method) ==
    /\ Len(requests) < MaxRequests
    /\ Requested(method, getHeaders(clockifyApiKey))

\* request(options): requestUrl answers, response.json is returned.
RequestResolves(k) ==
    /\ k \in 1..Len(requests)
    /\ requests' = RemoveAt(requests, k)
    /\ settled' = [ NoCallSettled EXCEPT !.method = requests[k].method,
                        !.outcome = "resolved", !.requested = TRUE ]
    /\ UNCHANGED << clockifyApiKey, parserVars, serviceVars >>

\* request(options): requestUrl throws, the catch logs and throws it again.
RequestRejects(k, thrownError) ==
    /\ k \in 1..Len(requests)
    /\ requests' = RemoveAt(requests, k)
    /\ settled' = [ NoCallSettled EXCEPT !.method = requests[k].method,
                        !.outcome = "rejected", !.error = thrownError,
                        !.requested = TRUE, !.requestError = thrownError ]
    /\ UNCHANGED << clockifyApiKey, parserVars, serviceVars >>

Positions == 1..MaxPending

\* The service from its construction on, with the timers FetchedFew.
NextService ==
    \/ RefreshWithToken
    \/ RefreshWithoutToken
    \/ \E k \in Positions : SetTokenSettle(k)
    \/ \E k \in Positions : PreloadSettle(k)
    \/ \E id \in 1..MaxHandles : TimerTick(id)
    \/ \E id \in 1..MaxHandles : StatusBarTick(id)
    \/ \E k \in Positions : UserIdSettle(k)
    \/ \E k \in Positions, e \in FetchedFew :
           EntriesSettle(k, e)
    \/ startTimer
    \/ stopTimer
    \/ \E k \in Positions : RecentSettle(k)
    \/ \E k \in Positions : CommandSettle(k)
    \/ ApiOutage

InitService == NoParsers /\ CollaboratorsIdle

SpecService == InitService /\ [][NextService]_vars

\* The service once refreshApiConnection has returned with the status
\* AVAILABLE: both intervals run and the first updateCurrentTimer call
\* awaits getCurrentTimer.
Connected ==
    /\ ApiAvailable = "AVAILABLE"
    /\ statusBarText = "-"
    /\ currentTimerInterval = 1
    /\ statusBarInterval = 2
    /\ intervals = { [id |-> 1, fn |-> "updateCurrentTimer"],
                     [id |-> 2, fn |-> "updateStatusBarText"] }
    /\ handles = 2
    /\ currentTimeEntry = NoTimer
    /\ currentTimer = NoTimer
    /\ pending = << Await("user", NoTimer, {}) >>
    /\ apiUp = TRUE
    /\ clock = 0
    /\ done = [ NoDone EXCEPT !.op = "refresh", !.token = "key",
                    !.test = "ok", !.status = "AVAILABLE", !.started = TRUE ]

\* The polls and commands of a connected service, with no further call of
\* refreshApiConnection, and every timer of FetchedEntries.
NextPolls ==
    \/ \E id \in 1..MaxHandles : TimerTick(id)
    \/ \E id \in 1..MaxHandles : StatusBarTick(id)
    \/ \E k \in Positions : UserIdSettle(k)
    \/ \E k \in Positions, e \in FetchedEntries :
           EntriesSettle(k, e)
    \/ startTimer
    \/ stopTimer
    \/ \E k \in Positions : RecentSettle(k)
    \/ \E k \in Positions : CommandSettle(k)
    \/ ApiOutage

InitPolls == NoParsers /\ Connected /\ ApiManagerConstructed

SpecPolls == InitPolls /\ [][NextPolls]_vars

\* The window fires an active interval again and again, and every request
\* sent settles.
Scheduling ==
    /\ WF_vars(\E id \in 1..MaxHandles : TimerTick(id))
    /\ WF_vars(\E k \in Positions : UserIdSettle(k))
    /\ WF_vars(\E k \in Positions, e \in FetchedEntries :
                   EntriesSettle(k, e))
    /\ WF_vars(\E k \in Positions : RecentSettle(k))
    /\ WF_vars(\E k \in Positions : CommandSettle(k))

SpecPollsFair == SpecPolls /\ Scheduling

NextApi ==
    \/ \E key \in ApiKeys : SetApiKey(key)
    \/ \E method \in Methods : ApiCall(method)
    \/ \E k \in 1..MaxRequests : RequestResolves(k)
    \/ \E k \in 1..MaxRequests, thrownError \in RequestErrors :
           RequestRejects(k, thrownError)

InitApi == NoParsers /\ CollaboratorsIdle

SpecApi == InitApi /\ [][NextApi]_vars

(***************************************************************************)
(* Vocabulary of the properties.                                           *)
(***************************************************************************)
Range(f) == { f[k] : k \in DOMAIN f }

Finished(i) == phase[i] \in {"returned", "raised"}

\* The token at the cursor of instance i exists and is the keyword kw.
AtKeyword(i, kw) ==
    /\ pos[i] < Len(tokens[i])
    /\ tokens[i][pos[i] + 1].type = "KEYWORD"
    /\ toLowerCase(tokens[i][pos[i] + 1].value) = toLowerCase(kw)

\* The token after the one at the cursor exists and is a WORD that names
\* one of the workspaces of ws.
NextNames(i, ws) ==
    /\ pos[i] + 1 < Len(tokens[i])
    /\ tokens[i][pos[i] + 2].type = "WORD"
    /\ toLowerCase(tokens[i][pos[i] + 2].value) \in ws

\* This step is the call of the rule `name` by parse() of instance i.
Calls(i, name) ==
    /\ Len(calls'[i]) = Len(calls[i]) + 1
    /\ calls'[i][Len(calls'[i])].name = name

PermittedWorkspaces == {"work", "learning"}

WorkspaceMessage == "Expected \"work\" or \"learning\" after WORKSPACE"

(***************************************************************************)
(* C1.  Clause order independence: two clauses of different kinds, written *)
(* in one order in one source text and in the other order in another, both *)
(* parse to identical Query objects.                                       *)
(***************************************************************************)
\* Well-formed clauses of the model, and the kind (keyword) of a clause.
ValidClauses ==
    { <<"TYPE", "list">>,
      <<"BETWEEN", "2024-01-01", "AND", "2024-01-31">>,
      <<"WORKSPACE", "learning">>,
      <<"PROJECTS", "INCLUDE", "a", ",", "b">>,
      <<"GROUPBY", "project">>,
      <<"SORT", "duration", "ASC">>,
      <<"SHOW", "time", ",", "project">>,
      <<"TITLE", "\"Mine\"">> }

ClauseKind(clause) == toLowerCase(clause[1])

C1_ClauseOrderIndependence ==
    \A a \in ValidClauses, b \in ValidClauses :
        ( /\ ClauseKind(a) # ClauseKind(b)
          /\ Instances = {1, 2}
          /\ source[1] = a \o b
          /\ source[2] = b \o a
          /\ Finished(1) /\ Finished(2) )
        => /\ phase[1] = "returned"
           /\ phase[2] = "returned"
           /\ result[1] = result[2]

(***************************************************************************)
(* C2.  If a keyword with a closed enumeration appears anywhere in the     *)
(* input followed by a value outside the enumeration, parse() raises: it   *)
(* never returns a Query for such an input.                                *)
(***************************************************************************)
Enumerations ==
    [ kw \in {"workspace", "groupby", "type"} |->
        CASE kw = "workspace" -> PermittedWorkspaces
          [] kw = "groupby" -> {"project", "client", "entry", "date"}
          [] kw = "type" -> {"summary", "list"} ]

\* Some keyword of a closed enumeration is followed by a foreign WORD.
InvalidEnumerationValue(toks) ==
    \E k \in 1..(Len(toks) - 1) :
        /\ toks[k].type = "KEYWORD"
        /\ toLowerCase(toks[k].value) \in DOMAIN Enumerations
        /\ toks[k + 1].type = "WORD"
        /\ toLowerCase(toks[k + 1].value)
               \notin Enumerations[toLowerCase(toks[k].value)]

C2_InvalidEnumerationRaises ==
    \A i \in Instances :
        InvalidEnumerationValue(tokens[i]) => phase[i] # "returned"

(***************************************************************************)
(* C3.  parse() calls the rules once each in the order query-type,         *)
(* interval, workspace, selection, group-by, sort, list, custom-title, on  *)
(* the one cursor: each rule starts where the previous one left it.        *)
(***************************************************************************)
DocumentedOrder ==
    << "parseQueryType", "parseQueryInterval", "parseWorkspace",
       "parseSelection", "parseGroupBy", "parseSort", "parseList",
       "parseCustomTitle" >>

C3_FixedRuleOrder ==
    \A i \in Instances :
        /\ Len(calls[i]) <= Len(DocumentedOrder)
        /\ \A k \in 1..Len(calls[i]) :
               /\ calls[i][k].name = DocumentedOrder[k]
               /\ calls[i][k].from = IF k = 1 THEN 0 ELSE calls[i][k - 1].to
        /\ pos[i] = IF calls[i] = << >> THEN 0
                    ELSE calls[i][Len(calls[i])].to
        /\ phase[i] = "returned" => Len(calls[i]) = Len(DocumentedOrder)

\* A parse that returned after two of its rules each consumed a clause.
C3_Witness ==
    \E i \in Instances :
        /\ phase[i] = "returned"
        /\ \E k, m \in 1..Len(calls[i]) :
               /\ k < m
               /\ calls[i][k].to > calls[i][k].from
               /\ calls[i][m].to > calls[i][m].from

(***************************************************************************)
(* C4.  The workspace field of the initial Query and of every Query that   *)
(* parse() returns is exactly "work" or "learning".                        *)
(***************************************************************************)
C4_WorkspaceIsConfigured ==
    \A i \in Instances :
        /\ phase[i] = "constructed" => query[i].workspace \in PermittedWorkspaces
        /\ phase[i] = "returned"
               => result[i][1].workspace \in PermittedWorkspaces

(***************************************************************************)
(* C5.  When WORKSPACE is the current token and the token after it is not  *)
(* a WORD naming a permitted workspace, parseWorkspace raises the error    *)
(* 'Expected "work" or "learning" after WORKSPACE' and leaves              *)
(* query.workspace at its previous value.                                  *)
(***************************************************************************)
C5_InvalidWorkspaceRaises ==
    [][ \A i \in Instances :
          ( /\ Calls(i, "parseWorkspace")
            /\ AtKeyword(i, "WORKSPACE")
            /\ ~NextNames(i, PermittedWorkspaces) )
          => /\ phase'[i] = "raised"
             /\ thrown'[i] = WorkspaceMessage
             /\ query'[i].workspace = query[i].workspace ]_vars

\* parseWorkspace has raised at the end of the input.
C5_Witness ==
    \E i \in Instances :
        /\ phase[i] = "raised"
        /\ thrown[i] = WorkspaceMessage
        /\ calls[i][Len(calls[i])].name = "parseWorkspace"
        /\ pos[i] = Len(tokens[i])

(***************************************************************************)
(* C6.  When the current token is WORKSPACE and the next one is a WORD     *)
(* naming a permitted workspace, parseWorkspace consumes exactly the two   *)
(* tokens, sets query.workspace to that workspace and changes no other     *)
(* field of the query.                                                     *)
(***************************************************************************)
C6_ValidWorkspaceStored ==
    [][ \A i \in Instances :
          ( /\ Calls(i, "parseWorkspace")
            /\ AtKeyword(i, "WORKSPACE")
            /\ NextNames(i, PermittedWorkspaces) )
          => /\ pos'[i] = pos[i] + 2
             /\ thrown'[i] = NoError
             /\ query'[i] = [query[i] EXCEPT !.workspace =
                    toLowerCase(tokens[i][pos[i] + 2].value)] ]_vars

(***************************************************************************)
(* C7.  When the current token is not the keyword WORKSPACE, or the cursor *)
(* is past the last token, parseWorkspace consumes nothing, raises nothing *)
(* and leaves the whole query unchanged.                                   *)
(***************************************************************************)
C7_AbsentWorkspaceNoOp ==
    [][ \A i \in Instances :
          ( Calls(i, "parseWorkspace") /\ ~AtKeyword(i, "WORKSPACE") )
          => /\ pos'[i] = pos[i]
             /\ thrown'[i] = NoError
             /\ phase'[i] = "parsing"
             /\ query'[i] = query[i] ]_vars

\* parseWorkspace was called with the cursor past the last token, after an
\* earlier rule had consumed the input, and did nothing.
C7_Witness ==
    \E i \in Instances :
        /\ Len(calls[i]) = 3
        /\ calls[i][3].from = calls[i][3].to
        /\ calls[i][3].threw = NoError
        /\ pos[i] = Len(tokens[i])
        /\ pos[i] > 0
        /\ phase[i] = "parsing"
        /\ query[i].workspace = "work"

(***************************************************************************)
(* C8.  The names accepted after WORKSPACE are those of the configured     *)
(* list a collaborator supplies: WORKSPACE <name> is accepted iff <name>   *)
(* is in that list.                                                        *)
(***************************************************************************)
C8_AcceptsConfiguredNames ==
    [][ \A i \in Instances :
          ( /\ Calls(i, "parseWorkspace")
            /\ AtKeyword(i, "WORKSPACE")
            /\ pos[i] + 1 < Len(tokens[i])
            /\ tokens[i][pos[i] + 2].type = "WORD" )
          => ( thrown'[i] = NoError <=> NextNames(i, Range(configured)) )
      ]_vars

(***************************************************************************)
(* C9.  When parse() raises, the parser's query object carries none of the *)
(* mutations of the rules that ran before the failing rule: it still       *)
(* equals the all-default query.                                           *)
(***************************************************************************)
C9_NoPartialQuery ==
    \A i \in Instances : phase[i] = "raised" => query[i] = DefaultQuery

\* C9 as amended: when parse() raises it returns no Query to the caller;
\* the parser's own query object is not reset and may hold the mutations of
\* the rules that ran before the failing rule; a call of parseWorkspace
\* that raises leaves the query as it was before the call.
C9_NoQueryReturnedOnFailure ==
    /\ [](\A i \in Instances :
            (\E k \in 1..Len(calls[i]) : calls[i][k].threw # NoError)
            => result[i] = << >>)
    /\ [][ \A i \in Instances :
             ( Calls(i, "parseWorkspace") /\ thrown'[i] # NoError )
             => query'[i] = query[i] ]_vars

\* parseWorkspace has raised after an earlier rule had mutated the query.
C9_Witness ==
    \E i \in Instances :
        /\ phase[i] = "raised"
        /\ calls[i][Len(calls[i])].name = "parseWorkspace"
        /\ query[i] # DefaultQuery
        /\ result[i] = << >>

(***************************************************************************)
(* C10.  When a rule raises during parse(), parse() does not catch it: the *)
(* error reaches the caller, no later rule is called and parse() returns   *)
(* no value.                                                               *)
(***************************************************************************)
C10_ErrorPropagates ==
    \A i \in Instances :
        \A k \in 1..Len(calls[i]) :
            calls[i][k].threw # NoError
            => /\ k = Len(calls[i])
               /\ phase[i] = "raised"
               /\ thrown[i] = calls[i][k].threw
               /\ result[i] = << >>

\* A rule before the last one has raised, with input left unread.
C10_Witness ==
    \E i \in Instances :
        /\ phase[i] = "raised"
        /\ thrown[i] # NoError
        /\ Len(calls[i]) < Len(DocumentedOrder)
        /\ pos[i] < Len(tokens[i])

(***************************************************************************)
(* Vocabulary of the properties on direct calls.                           *)
(***************************************************************************)
\* This step is a direct call of op on instance i by the caller.
DirectCall(i, op) == last'[i] # last[i] /\ last'[i].op = op

\* The token at position at (counted from 0) of instance i exists and
\* matches type and value, where given; values are compared ignoring case.
MatchesAt(i, at, type, value) ==
    /\ at < Len(tokens[i])
    /\ type # NoArg => tokens[i][at + 1].type = type
    /\ value # NoArg =>
           toLowerCase(tokens[i][at + 1].value) = toLowerCase(value)

EndOfInputMessage == "Unexpected end of input"

(***************************************************************************)
(* C11.  Once parse() has returned a Query, that Query is frozen: no later *)
(* operation on the same Parser, a second call of parse() included,        *)
(* changes any field of it.  (The Query returned is the object this.query; *)
(* result holds its value as it was when parse() last returned it.)        *)
(***************************************************************************)
C11_ReturnedQueryFrozen ==
    \A i \in Instances : result[i] # << >> => query[i] = result[i][1]

(***************************************************************************)
(* C12.  For the empty token sequence parse() consumes nothing, raises     *)
(* nothing and returns exactly the defaults: queryType 'summary', interval *)
(* null, empty selections, groupBy null, sort {time, desc}, list.show      *)
(* [project, time], customTitle null, workspace 'work'.                    *)
(***************************************************************************)
DocumentedDefaults ==
    [ queryType |-> "summary",
      interval |-> << >>,
      selection |->
          [ projects |-> [include |-> << >>, exclude |-> << >>],
            clients |-> [include |-> << >>, exclude |-> << >>],
            tags |-> [include |-> << >>, exclude |-> << >>] ],
      groupBy |-> "null",
      sort |-> [field |-> "time", order |-> "desc"],
      list |-> [show |-> <<"project", "time">>],
      customTitle |-> "null",
      workspace |-> "work" ]

C12_EmptyInputGivesDefaults ==
    \A i \in Instances :
        tokens[i] = << >>
        => /\ phase[i] # "raised"
           /\ pos[i] = 0
           /\ thrown[i] = NoError
           /\ phase[i] = "returned" => result[i] = <<DocumentedDefaults>>

\* parse() has returned for the empty source text.
C12_Witness ==
    \E i \in Instances :
        tokens[i] = << >> /\ phase[i] = "returned" /\ result[i] # << >>

(***************************************************************************)
(* C13.  peek(type, value) returns true iff the cursor is before the end   *)
(* of the tokens, the token there has exactly the given type and, when a   *)
(* value is given, the token's value equals it ignoring case.              *)
(***************************************************************************)
C13_PeekResult ==
    \A i \in Instances :
        last[i].op = "peek"
        => ( last[i].bool <=>
               /\ last[i].from < Len(tokens[i])
               /\ tokens[i][last[i].from + 1].type = last[i].type
               /\ last[i].value # NoArg =>
                      toLowerCase(tokens[i][last[i].from + 1].value)
                          = toLowerCase(last[i].value) )

\* peek returned true for a value written in another case than the token.
C13_Witness ==
    \E i \in Instances :
        /\ last[i].op = "peek"
        /\ last[i].bool
        /\ last[i].value = "WORKSPACE"
        /\ tokens[i][last[i].from + 1].value = "workspace"

(***************************************************************************)
(* C14.  peek never raises and changes nothing: in every parser state,     *)
(* past the end of the input included, it leaves the cursor position, the  *)
(* tokens and the query unchanged.                                         *)
(***************************************************************************)
C14_PeekChangesNothing ==
    [][ \A i \in Instances :
          DirectCall(i, "peek")
          => /\ last'[i].threw = NoError
             /\ pos'[i] = pos[i]
             /\ tokens'[i] = tokens[i]
             /\ query'[i] = query[i] ]_vars

\* peek was called past the end of a non-empty input, and one that matched.
C14_Witness ==
    \E i \in Instances :
        /\ last[i].op = "peek"
        /\ last[i].from = Len(tokens[i])
        /\ Len(tokens[i]) > 0
        /\ ~last[i].bool
        /\ last[i].threw = NoError

(***************************************************************************)
(* C15.  When the current token exists and matches the given type and      *)
(* value (or none is given), consume advances the cursor by exactly one    *)
(* and returns the token that was at the position before the call; tokens  *)
(* and query are unchanged.                                                *)
(***************************************************************************)
C15_ConsumeOnMatch ==
    [][ \A i \in Instances :
          ( /\ DirectCall(i, "consume")
            /\ MatchesAt(i, pos[i], last'[i].type, last'[i].value) )
          => /\ last'[i].threw = NoError
             /\ pos'[i] = pos[i] + 1
             /\ last'[i].token = <<tokens[i][pos[i] + 1]>>
             /\ tokens'[i] = tokens[i]
             /\ query'[i] = query[i] ]_vars

\* consume returned a token that it was asked for by type and value.
C15_Witness ==
    \E i \in Instances :
        /\ last[i].op = "consume"
        /\ last[i].type = "WORD"
        /\ last[i].value = "work"
        /\ last[i].token = <<[type |-> "WORD", value |-> "Work"]>>
        /\ pos[i] = last[i].from + 1

(***************************************************************************)
(* C16.  When a type or value is given and the current token does not      *)
(* match it, consume raises an error and leaves the cursor position, the   *)
(* tokens and the query unchanged: the token is not consumed.              *)
(***************************************************************************)
C16_ConsumeOnMismatch ==
    [][ \A i \in Instances :
          ( /\ DirectCall(i, "consume")
            /\ pos[i] < Len(tokens[i])
            /\ ~MatchesAt(i, pos[i], last'[i].type, last'[i].value) )
          => /\ last'[i].threw # NoError
             /\ last'[i].token = << >>
             /\ pos'[i] = pos[i]
             /\ tokens'[i] = tokens[i]
             /\ query'[i] = query[i] ]_vars

\* consume has raised on a token of the right type but another value.
C16_Witness ==
    \E i \in Instances :
        /\ last[i].op = "consume"
        /\ last[i].threw # NoError
        /\ last[i].from < Len(tokens[i])
        /\ tokens[i][last[i].from + 1].type = last[i].type
        /\ pos[i] = last[i].from

(***************************************************************************)
(* C17.  When the position equals the number of tokens, every consume      *)
(* call, with or without type and value, raises 'Unexpected end of input'  *)
(* and leaves the position unchanged; it never returns the last token.     *)
(***************************************************************************)
C17_ConsumePastEnd ==
    [][ \A i \in Instances :
          ( DirectCall(i, "consume") /\ pos[i] >= Len(tokens[i]) )
          => /\ last'[i].threw = EndOfInputMessage
             /\ last'[i].token = << >>
             /\ pos'[i] = pos[i] ]_vars

\* consume with a type was called after the last token of a non-empty
\* input.
C17_Witness ==
    \E i \in Instances :
        /\ last[i].op = "consume"
        /\ last[i].type # NoArg
        /\ last[i].from = Len(tokens[i])
        /\ Len(tokens[i]) > 0
        /\ last[i].threw = EndOfInputMessage

(***************************************************************************)
(* C18.  Every ParsingError raised for a required token that is absent or  *)
(* wrong, by consume or by a grammar rule such as parseWorkspace, carries  *)
(* a message that names both what was expected and the token found.        *)
(***************************************************************************)
\* How a message can be worded that names the expected e and the found f.
Naming(e, f) ==
    { "Expected token type \"" \o e \o "\" but got \"" \o f \o "\"",
      "Expected \"" \o e \o "\" but got \"" \o f \o "\"",
      "Expected " \o e \o " but got " \o f }

\* What can be named as found at position at of instance i.
FoundAt(i, at) ==
    IF at < Len(tokens[i])
    THEN {tokens[i][at + 1].type, tokens[i][at + 1].value}
    ELSE {"EOF", "end of input"}

NamesExpectedAndFound(msg, expected, found) ==
    \E e \in expected, f \in found : msg \in Naming(e, f)

C18_MessagesNameExpectedAndFound ==
    \A i \in Instances :
        /\ ( last[i].op = "consume" /\ last[i].threw # NoError )
           => NamesExpectedAndFound(last[i].threw,
                  {last[i].type, last[i].value} \ {NoArg},
                  FoundAt(i, last[i].from))
        /\ ( /\ phase[i] = "raised"
             /\ calls[i][Len(calls[i])].name = "parseWorkspace" )
           => NamesExpectedAndFound(thrown[i],
                  {"\"work\" or \"learning\"", "work", "learning"},
                  FoundAt(i, pos[i]))

\* C18 as amended: consume names the expected and the found token type
\* when the type is wrong, and the expected and the found value when the
\* value is wrong; at the end of the input its message is 'Unexpected end
\* of input', which names no expected token, and the message of
\* parseWorkspace names the permitted values but not the token found.
C18_MessagesAsWorded ==
    \A i \in Instances :
        /\ ( /\ last[i].op = "consume"
             /\ last[i].from < Len(tokens[i])
             /\ last[i].type # NoArg
             /\ tokens[i][last[i].from + 1].type # last[i].type )
           => last[i].threw =
                  "Expected token type \"" \o last[i].type \o "\" but got \""
                      \o tokens[i][last[i].from + 1].type \o "\""
        /\ ( /\ last[i].op = "consume"
             /\ last[i].from < Len(tokens[i])
             /\ last[i].type \in {NoArg, tokens[i][last[i].from + 1].type}
             /\ ~MatchesAt(i, last[i].from, NoArg, last[i].value) )
           => last[i].threw =
                  "Expected \"" \o last[i].value \o "\" but got \""
                      \o tokens[i][last[i].from + 1].value \o "\""
        /\ ( last[i].op = "consume" /\ last[i].from >= Len(tokens[i]) )
           => last[i].threw = EndOfInputMessage
        /\ ( /\ phase[i] = "raised"
             /\ calls[i][Len(calls[i])].name = "parseWorkspace" )
           => thrown[i] = WorkspaceMessage

\* consume has raised on a token of another value than the one expected.
C18_Witness ==
    \E i \in Instances :
        /\ last[i].op = "consume"
        /\ last[i].threw = "Expected \"work\" but got \"learning\""

(***************************************************************************)
(* C19.  error(message) only constructs a value: it returns an error named *)
(* 'ParsingError' carrying exactly the given message, does not raise it,   *)
(* and changes neither the cursor position nor the query.                  *)
(***************************************************************************)
C19_ErrorOnlyConstructs ==
    /\ [](\A i \in Instances :
            last[i].op = "error"
            => /\ last[i].error =
                      << [name |-> "ParsingError", message |-> last[i].value] >>
               /\ last[i].threw = NoError)
    /\ [][ \A i \in Instances :
             DirectCall(i, "error")
             => /\ pos'[i] = pos[i]
                /\ query'[i] = query[i]
                /\ tokens'[i] = tokens[i] ]_vars

\* error was called in the middle of the input, after a parse() changed
\* the query.
C19_Witness ==
    \E i \in Instances :
        /\ last[i].op = "error"
        /\ last[i].value = "x"
        /\ pos[i] > 0
        /\ query[i] # DocumentedDefaults

RECURSIVE ParsedAloneFrom(_, _)
ParsedAloneFrom(p, n) ==
    IF n > Len(DocumentedOrder) \/ p.err # NoError THEN p
    ELSE ParsedAloneFrom(CallRule(DocumentedOrder[n], p), n + 1)

ParsedAlone(src) == ParsedAloneFrom(NewParser(src), 1)

\* This step is a step of the parse() call of instance j.
ParseStep(j) ==
    \/ phase'[j] # phase[j]
    \/ rule'[j] # rule[j]
    \/ calls'[j] # calls[j]

C21_NoSharedState ==
    [][ /\ \A i, j \in Instances :
              ( i # j /\ ParseStep(j) )
              => /\ pos'[i] = pos[i]
                 /\ tokens'[i] = tokens[i]
                 /\ query'[i] = query[i]
        /\ \A i \in Instances :
              ( ~Finished(i) /\ Finished(i)' )
              => [ParsedAlone(source[i]) EXCEPT !.tokens = << >>]
                     = [ tokens |-> << >>, query |-> query'[i],
                         pos |-> pos'[i], err |-> thrown'[i] ] ]_vars

\* The parse() calls of two Parsers of different source texts are both
\* under way, each between two of its rule calls, and both have consumed
\* tokens.
C21_Witness ==
    /\ Instances = {1, 2}
    /\ phase[1] = "parsing"
    /\ phase[2] = "parsing"
    /\ rule[1] \in 2..Len(ParseOrder)
    /\ rule[2] \in 2..Len(ParseOrder)
    /\ source[1] # source[2]
    /\ pos[1] > 0
    /\ pos[2] > 0

(***************************************************************************)
(* C28.  The cursor position is always within 0..number of tokens and      *)
(* never decreases: for every sequence of peek, consume, error and         *)
(* grammar-rule calls on a Parser, 0 <= pos <= tokens.length holds in      *)
(* every state and each call leaves pos equal or one larger per consumed   *)
(* token.                                                                  *)
(***************************************************************************)
C28_CursorInRangeAndMonotone ==
    /\ [](\A i \in Instances : pos[i] \in 0..Len(tokens[i]))
    /\ [][ \A i \in Instances :
             /\ pos'[i] >= pos[i]
             /\ DirectCall(i, "peek") => pos'[i] = pos[i]
             /\ DirectCall(i, "error") => pos'[i] = pos[i]
             /\ DirectCall(i, "consume")
                => pos'[i] = pos[i] + Len(last'[i].token)
             /\ calls'[i] # calls[i] /\ calls'[i] # << >>
                => /\ calls'[i][Len(calls'[i])].from = pos[i]
                   /\ calls'[i][Len(calls'[i])].to = pos'[i] ]_vars

\* The cursor stands after the last of several tokens, where a direct
\* consume call has moved it after a second call of parse().
C28_Witness ==
    \E i \in Instances :
        /\ Len(tokens[i]) >= 2
        /\ pos[i] = Len(tokens[i])
        /\ last[i].op = "consume"
        /\ last[i].threw = NoError
        /\ phase[i] = "returned"

(***************************************************************************)
(* Vocabulary of the properties of the service.                            *)
(***************************************************************************)
\* The active intervals of the window that call fn.
Active(fn) == { x \in intervals : x.fn = fn }

\* A call of updateCurrentTimer, or a command that calls it when its
\* request settles, has not completed.
PollsPending ==
    \E k \in 1..Len(pending) :
        pending[k].op \in {"user", "entries", "recent", "start", "stop"}

TagSet(entry) == { entry.tag_ids[n] : n \in 1..Len(entry.tag_ids) }

\* Both null, or the same id, description, project, start and tags.
SameTimer(a, b) ==
    IF a = NoTimer \/ b = NoTimer THEN a = b
    ELSE /\ a[1].id = b[1].id
         /\ a[1].description = b[1].description
         /\ a[1].project_id = b[1].project_id
         /\ a[1].start = b[1].start
         /\ TagSet(a[1]) = TagSet(b[1])

(***************************************************************************)
(* C22.  After the API status has become DEGRADED because a timer poll     *)
(* failed, the periodic poll keeps retrying: if the Clockify API answers   *)
(* again, the status eventually returns to AVAILABLE without a manual      *)
(* refreshApiConnection.                                                   *)
(***************************************************************************)
C22_DegradedRecovers ==
    (ApiAvailable = "DEGRADED" /\ apiUp)
        ~> (ApiAvailable = "AVAILABLE" \/ ~apiUp)

(***************************************************************************)
(* C23.  For any sequence of refreshApiConnection calls, overlapping calls *)
(* included, at most one current-timer polling interval and at most one    *)
(* status-bar update interval are active at any time.                      *)
(***************************************************************************)
C23_OneIntervalEach ==
    /\ Cardinality(Active("updateCurrentTimer")) <= 1
    /\ Cardinality(Active("updateStatusBarText")) <= 1

(***************************************************************************)
(* C24.  When several updateCurrentTimer invocations overlap and their     *)
(* responses arrive in any order, then once all of them have completed     *)
(* _currentTimeEntry and the value last published by setCurrentTimer       *)
(* describe the same timer.                                                *)
(***************************************************************************)
C24_EntryAndPublishedAgree ==
    ~PollsPending => SameTimer(currentTimeEntry, currentTimer)

(***************************************************************************)
(* C25.  When a refreshApiConnection(token) call finishes, the status is   *)
(* NO_TOKEN if the token is null or empty, UNREACHABLE if the connection   *)
(* test failed, and AVAILABLE if it succeeded; the intervals that were     *)
(* running before the call are cleared in all three cases, and new polling *)
(* intervals are started only in the AVAILABLE case.                       *)
(***************************************************************************)
C25_RefreshOutcome ==
    done.op = "refresh"
    => /\ done.token = NoArg => done.status = "NO_TOKEN"
       /\ done.test = "failed" => done.status = "UNREACHABLE"
       /\ done.test = "ok" => done.status = "AVAILABLE"
       /\ done.cleared
       /\ done.started => done.status = "AVAILABLE"

(***************************************************************************)
(* C26.  For a completed poll with previous entry prev and fetched entry   *)
(* curr, updateCurrentTimer publishes curr with setCurrentTimer and        *)
(* refetches the daily summary iff one of the four transitions holds (prev *)
(* null and curr non-null; ids differ; same id but description, project,   *)
(* start or tag set differ; prev non-null and curr null) and does neither  *)
(* otherwise; in both cases _currentTimeEntry becomes curr, while a poll   *)
(* that fails leaves _currentTimeEntry and the published timer unchanged.  *)
(***************************************************************************)
FourTransitions(prev, curr) ==
    \/ prev = NoTimer /\ curr # NoTimer
    \/ prev # NoTimer /\ curr # NoTimer /\ prev[1].id # curr[1].id
    \/ prev # NoTimer /\ curr # NoTimer /\ ~SameTimer(prev, curr)
    \/ prev # NoTimer /\ curr = NoTimer

\* What getCurrentTimer returns when the entry at Clockify is `entry`.
Fetched(entry) == IF apiUp THEN entry ELSE NoTimer

PollCompletes(prev, curr) ==
    /\ done'.published = FourTransitions(prev, curr)
    /\ done'.refetched = FourTransitions(prev, curr)
    /\ currentTimer' = IF FourTransitions(prev, curr) THEN curr
                       ELSE currentTimer
    /\ currentTimeEntry' = curr

C26_PollPublishesTransitions ==
    [][ /\ \A k \in Positions, e \in FetchedEntries :
              EntriesSettle(k, e)
              => PollCompletes(pending[k].prev, Fetched(e))
        /\ \A k \in Positions :
              ( UserIdSettle(k) /\ ~apiUp )
              => /\ currentTimeEntry' = currentTimeEntry
                 /\ currentTimer' = currentTimer ]_vars

(***************************************************************************)
(* C27.  startTimer and stopTimer run their body (and so issue any         *)
(* Clockify request) only when the API status is AVAILABLE; in every other *)
(* status (UNTESTED, NO_TOKEN, UNREACHABLE, DEGRADED) the body is not run  *)
(* and a notice is emitted instead.                                        *)
(***************************************************************************)
C27_CommandsNeedAvailable ==
    done.op \in {"startTimer", "stopTimer"}
    => /\ done.ran <=> done.status = "AVAILABLE"
       /\ ~done.ran => done.notice # NoNotice

(***************************************************************************)
(* C29.  ApiManager never issues an HTTP request while no API key is set:  *)
(* get, post and patch each fail with the error 'Clockify API Key is not   *)
(* set.' before requestUrl is called, and a request error from requestUrl  *)
(* is rethrown to the caller rather than swallowed.                        *)
(***************************************************************************)
C29_NoRequestWithoutKey ==
    /\ [](/\ \A k \in 1..Len(requests) : requests[k].headers.XApiKey # ""
          /\ ( settled.outcome = "rejected" /\ ~settled.requested )
             => settled.error = "Clockify API Key is not set."
          /\ settled.requestError # NoError
             => /\ settled.outcome = "rejected"
                /\ settled.error = settled.requestError)
    /\ [][ /\ Len(requests') > Len(requests) => clockifyApiKey # ""
           /\ \A method \in Methods :
                 ( ApiCall(method) /\ clockifyApiKey = "" )
                 => /\ requests' = requests
                    /\ settled'.method = method
                    /\ settled'.outcome = "rejected"
                    /\ ~settled'.requested ]_vars

\* A call made while no key is set was rejected without a request, while a
\* request sent before the key was removed is still in flight.
C29_Witness ==
    /\ clockifyApiKey = ""
    /\ settled.outcome = "rejected"
    /\ ~settled.requested
    /\ settled.method = "POST"
    /\ Len(requests) > 0

====
